---- MODULE Spec2Model ----
(***************************************************************************)
(* Image Classifier API: the express server (server.ts), the /classify     *)
(* handler (ClassificationController.ts), the image pipeline               *)
(* (ImageProcessor.ts) and the model adapter (ModelService.ts).            *)
(*                                                                         *)
(* Conventions                                                             *)
(*  - A text (error message, MIME type) is a sequence of tokens; includes  *)
(*    and startsWith are contiguous-subsequence and prefix tests on it.    *)
(*  - A probability is an integer counting units of 10^-5; NaN is the      *)
(*    value NaN below.  toFixed(4) rounds to a multiple of 10 units.       *)
(*  - A tensor is named after the variable (or expression) that holds it   *)
(*    in the source; live is the set of tensors the request in flight has  *)
(*    allocated and not disposed.                                          *)
(***************************************************************************)
EXTENDS Integers, Sequences, FiniteSets, TLC

VARIABLES
    proc,           \* server process: starting, loaded, loadFailed, listening, exited; direct = handlers driven without server.ts' startServer
    model,          \* ModelService.model: "null" or "loaded"
    pc,             \* position of the request in flight
    req,            \* the request: route, upload field, declared MIME type, size
    file,           \* req.file is defined (set by multer)
    observedModel,  \* what isModelLoaded() read for this request ("unread" before)
    imageMetadata,  \* result of validateImage
    live,           \* tensors allocated for this request and not disposed
    calls,          \* which of validateImage, preprocessImage, predict were invoked
    thrown,         \* message of the Error on its way to the handler's catch
    failedStage,    \* the stage whose failure ended the request ("none" if none)
    probabilities,  \* the model's output vector for this request
    prediction,     \* ModelService.predict's PredictionResult
    res             \* the response sent

vars == <<proc, model, pc, req, file, observedModel, imageMetadata, live, calls,
          thrown, failedStage, probabilities, prediction, res>>

-----------------------------------------------------------------------------
(* Bounds of the model *)

\* at most this many entries of a probability vector differ from 0
MaxHot == 2
\* non-zero probabilities are ProbStep, 2*ProbStep, .. MaxLevel*ProbStep
MaxLevel == 3
ProbStep == 33333

-----------------------------------------------------------------------------
(* Texts *)

StartsWith(text, prefix) ==
    /\ Len(text) >= Len(prefix)
    /\ SubSeq(text, 1, Len(prefix)) = prefix

Includes(text, pattern) ==
    \E i \in 1..(Len(text) + 1) :
        /\ i + Len(pattern) - 1 <= Len(text)
        /\ SubSeq(text, i, i + Len(pattern) - 1) = pattern

Min(a, b) == IF a <= b THEN a ELSE b

\* Array.prototype.slice(from, to) on a 1-based sequence
Slice(s, from, to) == SubSeq(s, from + 1, Min(to, Len(s)))

-----------------------------------------------------------------------------
(* ModelService *)

classes == <<"plane", "car", "bird", "cat", "deer", "dog", "frog", "horse", "ship", "truck">>

NumClasses == Len(classes)

NaN == -1

IsNaN(v) == v = NaN

\* a test against undefined instead of null: true of every model state
isModelLoadedNotUndefined(m) == m # "undefined"

isModelLoaded(m) == m # "null"

\* loadModel: this.model is assigned only when tf.loadGraphModel resolves
loadModel(m, loadOk) == IF loadOk THEN "loaded" ELSE m

\* Math.max(...probabilities): NaN as soon as one value is NaN
RECURSIVE MaxOf(_)
MaxOf(s) ==
    IF Len(s) = 1 THEN s[1]
    ELSE LET m == MaxOf(Tail(s)) IN IF s[1] >= m THEN s[1] ELSE m

MathMax(s) == IF \E i \in 1..Len(s) : IsNaN(s[i]) THEN NaN ELSE MaxOf(s)

\* Array.prototype.indexOf: 0-based index of the first strictly equal element,
\* -1 when there is none; NaN is equal to nothing
IndexOfLast(s, v) ==
    IF IsNaN(v) \/ ~\E i \in 1..Len(s) : s[i] = v THEN -1
    ELSE (CHOOSE i \in 1..Len(s) : s[i] = v /\ \A j \in (i+1)..Len(s) : s[j] # v) - 1

IndexOf(s, v) ==
    IF IsNaN(v) \/ ~\E i \in 1..Len(s) : s[i] = v THEN -1
    ELSE (CHOOSE i \in 1..Len(s) : s[i] = v /\ \A j \in 1..(i-1) : s[j] # v) - 1

\* Number(x.toFixed(4)), in units of 10^-5
ToFixed4(v) == ((v + 5) \div 10) * 10

\* (x * 100).toFixed(2): the digits of the string, as hundredths of a percent
Percentage(v) == IF IsNaN(v) THEN NaN ELSE (v + 5) \div 10

\* the comparator of classResults.sort: negative puts a first
CompareAscending(a, b) == a.probability - b.probability

Compare(a, b) == b.probability - a.probability

\* Array.prototype.sort is stable: an element goes after every element that
\* does not compare greater than it
RECURSIVE Insert(_, _)
Insert(sorted, x) ==
    IF sorted = <<>> THEN <<x>>
    ELSE IF Compare(Head(sorted), x) <= 0
         THEN <<Head(sorted)>> \o Insert(Tail(sorted), x)
         ELSE <<x>> \o sorted

RECURSIVE SortPrefix(_, _)
SortPrefix(arr, n) ==
    IF n = 0 THEN <<>> ELSE Insert(SortPrefix(arr, n - 1), arr[n])

Sort(arr) == SortPrefix(arr, Len(arr))

classResults(probs) ==
    [i \in 1..NumClasses |->
        [class |-> classes[i], probability |-> probs[i], percentage |-> Percentage(probs[i])]]

NoPrediction ==
    [predictedClass |-> "", confidence |-> 0, confidencePercentage |-> 0,
     allPredictions |-> <<>>]

PredictionFailedMessage(cause) == <<"Prediction", "failed", ":">> \o cause

ModelNotLoadedMessage == <<"Model", "not", "loaded", ".", "Call", "loadModel()", "first", ".">>

ToFixedOfUndefined ==
    <<"TypeError", ":", "Cannot", "read", "properties", "of", "undefined">>

\* predict, for each way the runtime can answer.  out.kind is
\*   "predictThrows": this.model.predict throws out.cause
\*   "dataRejects":   prediction.data() rejects with out.cause
\*   "vector":        the output vector is out.probs
\* The result names the tensors predict leaves allocated.
predict(m, out) ==
    IF ~isModelLoaded(m)
    THEN [threw |-> TRUE, message |-> ModelNotLoadedMessage,
          result |-> NoPrediction, leaked |-> {}]
    ELSE IF out.kind = "predictThrows"
    THEN [threw |-> TRUE, message |-> PredictionFailedMessage(out.cause),
          result |-> NoPrediction, leaked |-> {}]
    ELSE IF out.kind = "dataRejects"
    THEN [threw |-> TRUE, message |-> PredictionFailedMessage(out.cause),
          result |-> NoPrediction, leaked |-> {"prediction"}]
    ELSE LET maxProbabilityIndex == IndexOf(out.probs, MathMax(out.probs)) IN
         IF maxProbabilityIndex = -1
         THEN \* classes[-1] and probabilities[-1] are undefined: confidence.toFixed throws
              [threw |-> TRUE, message |-> PredictionFailedMessage(ToFixedOfUndefined),
               result |-> NoPrediction, leaked |-> {}]
         ELSE LET confidence == out.probs[maxProbabilityIndex + 1] IN
              [threw |-> FALSE, message |-> <<>>,
               result |-> [predictedClass |-> classes[maxProbabilityIndex + 1],
                           confidence |-> ToFixed4(confidence),
                           confidencePercentage |-> Percentage(confidence),
                           allPredictions |-> Sort(classResults(out.probs))],
               leaked |-> {}]

-----------------------------------------------------------------------------
(* ImageProcessor *)

supportedFormats == {"jpeg", "jpg", "png", "webp", "gif", "bmp"}

ValidationFailedMessage(cause) == <<"Image", "validation", "failed", ":">> \o cause

PreprocessingFailedMessage(cause) == <<"Image", "preprocessing", "failed", ":">> \o cause

NoMetadata == [width |-> 0, height |-> 0, format |-> "undefined"]

\* validateImage on what sharp(imageBuffer).metadata() answers: it throws
\* meta.cause, or gives width, height and format (0 / "undefined" when absent).
\* The Errors thrown inside the try are wrapped by its own catch.
validateImage(meta) ==
    IF meta.threw
    THEN [threw |-> TRUE, message |-> ValidationFailedMessage(meta.cause),
          metadata |-> NoMetadata]
    ELSE IF meta.width = 0 \/ meta.height = 0
    THEN [threw |-> TRUE,
          message |-> ValidationFailedMessage(
              <<"Error", ":", "Unable", "to", "determine", "image", "dimensions">>),
          metadata |-> NoMetadata]
    ELSE IF meta.format = "undefined" \/ meta.format \notin supportedFormats
    THEN [threw |-> TRUE,
          message |-> ValidationFailedMessage(
              <<"Error", ":", "Unsupported", "image", "format", ":", meta.format>>),
          metadata |-> NoMetadata]
    ELSE [threw |-> FALSE, message |-> <<>>,
          metadata |-> [width |-> meta.width, height |-> meta.height,
                        format |-> meta.format]]

\* the calls of preprocessImage in order, and the tensor each one allocates
PreprocessSteps ==
    <<"sharp", "decodeImage", "resizeBilinear", "sub", "div", "expandDims">>

Allocates(step) ==
    CASE step = "decodeImage"    -> {"imageTensor"}
      [] step = "resizeBilinear" -> {"resizedTensor"}
      [] step = "sub"            -> {"subResult"}
      [] step = "div"            -> {"normalizedTensor"}
      [] step = "expandDims"     -> {"batchedTensor"}
      [] OTHER                   -> {}

AllocatedBefore(k) == UNION {Allocates(PreprocessSteps[j]) : j \in 1..(k - 1)}

\* the dispose calls before the return
DisposedOnReturn == {"imageTensor", "resizedTensor", "normalizedTensor"}

\* preprocessImage when step number failAt throws cause (failAt = 0: none does).
\* The catch disposes nothing.
preprocessImage(failAt, cause) ==
    IF failAt = 0
    THEN [threw |-> FALSE, message |-> <<>>,
          live |-> AllocatedBefore(Len(PreprocessSteps) + 1) \ DisposedOnReturn]
    ELSE [threw |-> TRUE, message |-> PreprocessingFailedMessage(cause),
          live |-> AllocatedBefore(failAt)]

-----------------------------------------------------------------------------
(* Responses *)

NoRes ==
    [status |-> 0, keys |-> {}, error |-> "", message |-> <<>>,
     modelLoaded |-> FALSE, result |-> NoPrediction]

ErrorBody(status, keys, error, message) ==
    [status |-> status, keys |-> keys, error |-> error, message |-> message,
     modelLoaded |-> FALSE, result |-> NoPrediction]

-----------------------------------------------------------------------------
(* ClassificationController.classifyImage *)

\* the two guards at the top of the handler, in the order of the source
EntryOutcomeModelFirst(hasFile, m) ==
    IF ~isModelLoaded(m) THEN "modelUnready"
    ELSE IF ~hasFile THEN "noFile"
    ELSE "proceed"

EntryOutcome(hasFile, m) ==
    IF ~hasFile THEN "noFile"
    ELSE IF ~isModelLoaded(m) THEN "modelUnready"
    ELSE "proceed"

NoFileResponse ==
    ErrorBody(400, {"error", "message"}, "No image file provided",
              <<"Please upload an image file using the \"image\" field">>)

ModelUnreadyResponse ==
    ErrorBody(503, {"error", "message"}, "Model not available",
              <<"The classification model is not loaded yet. Please try again later.">>)

\* the catch block: the status is chosen from the text of error.message
CatchResponse(message) ==
    IF \/ Includes(message, <<"Image", "validation", "failed">>)
       \/ Includes(message, <<"Image", "preprocessing", "failed">>)
    THEN ErrorBody(400, {"error", "message", "timestamp"}, "Invalid image", message)
    ELSE IF Includes(message, <<"Model", "not", "loaded">>)
    THEN ErrorBody(503, {"error", "message", "timestamp"}, "Service unavailable",
                   <<"Classification model is not ready">>)
    ELSE ErrorBody(500, {"error", "message", "timestamp"}, "Classification failed",
                   <<"An error occurred during image classification">>)

TopPredictions == 5

SuccessResponse(p) ==
    [status |-> 200, keys |-> {"success", "result", "metadata", "timestamp"},
     error |-> "", message |-> <<>>, modelLoaded |-> FALSE,
     result |-> [predictedClass |-> p.predictedClass,
                 confidence |-> p.confidence,
                 confidencePercentage |-> p.confidencePercentage,
                 allPredictions |-> Slice(p.allPredictions, 0, TopPredictions)]]

-----------------------------------------------------------------------------
(* server.ts *)

\* limits.fileSize, in MiB
fileSizeLimit == 5

fileFilter(mimetype) == StartsWith(mimetype, <<"image", "/">>)

\* the error handling middleware; err.multer: err instanceof multer.MulterError
ErrorMiddleware(err) ==
    IF err.multer
    THEN ErrorBody(400, {"error", "message"}, "File upload error", err.message)
    ELSE ErrorBody(500, {"error", "message"}, "Internal server error", err.message)

HealthResponse(m) ==
    [status |-> 200, keys |-> {"status", "timestamp", "modelLoaded"},
     error |-> "", message |-> <<>>, modelLoaded |-> isModelLoaded(m),
     result |-> NoPrediction]

\* startServer after await modelService.loadModel(): listen, or exit in the catch
AfterLoadListenAnyway(p) == "listening"

AfterLoad(p) == IF p = "loaded" THEN "listening" ELSE "exited"

-----------------------------------------------------------------------------
(* Inputs *)

NoUpload == [hasField |-> FALSE, mimetype |-> <<>>, size |-> 0]

MimeTypes ==
    {<<"image", "/", "png">>, <<"text", "/", "plain">>,
     <<"application", "/", "x-image", "/">>}

FileSizes == {fileSizeLimit, fileSizeLimit + 1}

Uploads ==
    {NoUpload} \cup
    {[hasField |-> TRUE, mimetype |-> m, size |-> s] : m \in MimeTypes, s \in FileSizes}

SharpCauses == {<<"Error", ":", "Input", "buffer", "contains", "unsupported", "image", "format">>}

SharpMetadata ==
    {[threw |-> TRUE, cause |-> c, width |-> 0, height |-> 0, format |-> "undefined"] :
        c \in SharpCauses}
    \cup
    {[threw |-> FALSE, cause |-> <<>>, width |-> w, height |-> 400, format |-> f] :
        w \in {0, 500}, f \in {"undefined", "png", "tiff"}}

\* what the tf runtime may say when a call on the opaque graph model throws
TfCauses ==
    {<<"Error", ":", "Invalid", "input", "shape">>,
     <<"Error", ":", "Image", "validation", "failed", "in", "op", "Assert">>,
     <<"Error", ":", "Model", "not", "loaded", "on", "backend">>}

ProbValues == {k * ProbStep : k \in 1..MaxLevel} \cup {NaN}

HotSets == {S \in SUBSET (1..NumClasses) : Cardinality(S) <= MaxHot}

ProbVectors ==
    UNION {{[i \in 1..NumClasses |-> IF i \in S THEN g[i] ELSE 0] : g \in [S -> ProbValues]} :
           S \in HotSets}

PredictOutcomes ==
    {[kind |-> k, cause |-> c, probs |-> <<>>] :
        k \in {"predictThrows", "dataRejects"}, c \in TfCauses}
    \cup
    {[kind |-> "vector", cause |-> <<>>, probs |-> p] : p \in ProbVectors}

-----------------------------------------------------------------------------
(* State machine *)

NoReq == [route |-> "none", upload |-> NoUpload]

RequestIdle ==
    /\ pc = "idle"
    /\ req = NoReq
    /\ file = FALSE
    /\ observedModel = "unread"
    /\ imageMetadata = NoMetadata
    /\ live = {}
    /\ calls = {}
    /\ thrown = <<>>
    /\ failedStage = "none"
    /\ probabilities = <<>>
    /\ prediction = NoPrediction
    /\ res = NoRes

\* server.ts is run: the ModelService is constructed unloaded, nothing listens
Init ==
    /\ proc = "starting"
    /\ model = "null"
    /\ RequestIdle

\* the controller and the routes are driven on a ModelService in any state of
\* its lifecycle (construct unloaded, loadModel() at any later time)
InitDirect ==
    /\ proc = "direct"
    /\ model = "null"
    /\ RequestIdle

\* startServer up to the end of await modelService.loadModel()
StartServer ==
    /\ proc = "starting"
    /\ \E loadOk \in BOOLEAN :
        /\ model' = loadModel(model, loadOk)
        /\ proc' = IF loadOk THEN "loaded" ELSE "loadFailed"
    /\ UNCHANGED <<pc, req, file, observedModel, imageMetadata, live, calls, thrown,
                   failedStage, probabilities, prediction, res>>

\* startServer after the await: app.listen, or the catch's process.exit(1)
StartServerResume ==
    /\ proc \in {"loaded", "loadFailed"}
    /\ proc' = AfterLoad(proc)
    /\ UNCHANGED <<model, pc, req, file, observedModel, imageMetadata, live, calls,
                   thrown, failedStage, probabilities, prediction, res>>

\* ModelService.loadModel called on its own
LoadModel ==
    /\ proc = "direct"
    /\ \E loadOk \in BOOLEAN : model' = loadModel(model, loadOk)
    /\ UNCHANGED <<proc, pc, req, file, observedModel, imageMetadata, live, calls,
                   thrown, failedStage, probabilities, prediction, res>>

\* a request reaches the routes; the state of the previous one is dropped
Arrive ==
    /\ proc \in {"listening", "direct"}
    /\ pc \in {"idle", "done"}
    /\ \E r \in {[route |-> "health", upload |-> NoUpload]}
                \cup {[route |-> "classify", upload |-> u] : u \in Uploads} :
        req' = r
    /\ pc' = "routed"
    /\ file' = FALSE
    /\ observedModel' = "unread"
    /\ imageMetadata' = NoMetadata
    /\ live' = {}
    /\ calls' = {}
    /\ thrown' = <<>>
    /\ failedStage' = "none"
    /\ probabilities' = <<>>
    /\ prediction' = NoPrediction
    /\ res' = NoRes
    /\ UNCHANGED <<proc, model>>

\* GET /health
Health ==
    /\ pc = "routed"
    /\ req.route = "health"
    /\ observedModel' = model
    /\ res' = HealthResponse(model)
    /\ pc' = "done"
    /\ UNCHANGED <<proc, model, req, file, imageMetadata, live, calls, thrown,
                   failedStage, probabilities, prediction>>

\* upload.single('image'): no field leaves req.file undefined; the fileFilter's
\* Error and the size limit's MulterError go to the error handling middleware
UploadSingle ==
    /\ pc = "routed"
    /\ req.route = "classify"
    /\ LET u == req.upload IN
        IF ~u.hasField
        THEN /\ file' = FALSE
             /\ pc' = "handler"
             /\ UNCHANGED <<res, failedStage>>
        ELSE IF ~fileFilter(u.mimetype)
        THEN /\ res' = ErrorMiddleware([multer |-> FALSE,
                                        message |-> <<"Only image files are allowed!">>])
             /\ failedStage' = "upload"
             /\ pc' = "done"
             /\ UNCHANGED file
        ELSE IF u.size > fileSizeLimit
        THEN /\ res' = ErrorMiddleware([multer |-> TRUE, message |-> <<"File too large">>])
             /\ failedStage' = "upload"
             /\ pc' = "done"
             /\ UNCHANGED file
        ELSE /\ file' = TRUE
             /\ pc' = "handler"
             /\ UNCHANGED <<res, failedStage>>
    /\ UNCHANGED <<proc, model, req, observedModel, imageMetadata, live, calls, thrown,
                   probabilities, prediction>>

\* classifyImage up to its first await
ClassifyEntry ==
    /\ pc = "handler"
    /\ LET outcome == EntryOutcome(file, model) IN
        /\ observedModel' = IF file THEN model ELSE observedModel
        /\ IF outcome = "noFile"
           THEN /\ res' = NoFileResponse
                /\ failedStage' = "noFile"
                /\ pc' = "done"
           ELSE IF outcome = "modelUnready"
           THEN /\ res' = ModelUnreadyResponse
                /\ failedStage' = "modelUnready"
                /\ pc' = "done"
           ELSE /\ pc' = "validate"
                /\ UNCHANGED <<res, failedStage>>
    /\ UNCHANGED <<proc, model, req, file, imageMetadata, live, calls, thrown,
                   probabilities, prediction>>

\* await this.imageProcessor.validateImage(req.file.buffer)
ValidateImage ==
    /\ pc = "validate"
    /\ calls' = calls \cup {"validateImage"}
    /\ \E meta \in SharpMetadata :
        LET r == validateImage(meta) IN
        IF r.threw
        THEN /\ thrown' = r.message
             /\ failedStage' = "validateImage"
             /\ pc' = "catch"
             /\ UNCHANGED imageMetadata
        ELSE /\ imageMetadata' = r.metadata
             /\ pc' = "preprocess"
             /\ UNCHANGED <<thrown, failedStage>>
    /\ UNCHANGED <<proc, model, req, file, observedModel, live, probabilities,
                   prediction, res>>

\* await this.imageProcessor.preprocessImage(req.file.buffer)
PreprocessImage ==
    /\ pc = "preprocess"
    /\ calls' = calls \cup {"preprocessImage"}
    /\ \E failAt \in 0..Len(PreprocessSteps), cause \in SharpCauses :
        LET r == preprocessImage(failAt, cause) IN
        /\ live' = live \cup r.live
        /\ IF r.threw
           THEN /\ thrown' = r.message
                /\ failedStage' = "preprocessImage"
                /\ pc' = "catch"
           ELSE /\ pc' = "predict"
                /\ UNCHANGED <<thrown, failedStage>>
    /\ UNCHANGED <<proc, model, req, file, observedModel, imageMetadata, probabilities,
                   prediction, res>>

\* await this.modelService.predict(preprocessedImage)
Predict ==
    /\ pc = "predict"
    /\ calls' = calls \cup {"predict"}
    /\ \E out \in PredictOutcomes :
        LET r == predict(model, out) IN
        /\ probabilities' = out.probs
        /\ live' = live \cup r.leaked
        /\ IF r.threw
           THEN /\ thrown' = r.message
                /\ failedStage' = "predict"
                /\ pc' = "catch"
                /\ UNCHANGED prediction
           ELSE /\ prediction' = r.result
                /\ pc' = "respond"
                /\ UNCHANGED <<thrown, failedStage>>
    /\ UNCHANGED <<proc, model, req, file, observedModel, imageMetadata, res>>

\* after predict: preprocessedImage.dispose() and res.json of the result
Respond ==
    /\ pc = "respond"
    /\ live' = live \ {"batchedTensor"}
    /\ res' = SuccessResponse(prediction)
    /\ pc' = "done"
    /\ UNCHANGED <<proc, model, req, file, observedModel, imageMetadata, calls, thrown,
                   failedStage, probabilities, prediction>>

\* the catch block of classifyImage
Catch ==
    /\ pc = "catch"
    /\ res' = CatchResponse(thrown)
    /\ pc' = "done"
    /\ UNCHANGED <<proc, model, req, file, observedModel, imageMetadata, live, calls,
                   thrown, failedStage, probabilities, prediction>>

Request ==
    \/ Arrive
    \/ Health
    \/ UploadSingle
    \/ ClassifyEntry
    \/ ValidateImage
    \/ PreprocessImage
    \/ Predict
    \/ Respond
    \/ Catch

Next == StartServer \/ StartServerResume \/ Request

Spec == Init /\ [][Next]_vars

NextDirect == LoadModel \/ Request

SpecDirect == InitDirect /\ [][NextDirect]_vars

-----------------------------------------------------------------------------
(* Properties *)

Done == pc = "done" /\ req.route = "classify"

\* preprocessImage was awaited and returned its tensor
PreprocessSucceeded == "preprocessImage" \in calls /\ failedStage # "preprocessImage"

FailureStatuses == {400, 500, 503}

\* i is the lowest index at which the maximum of p occurs
IsLowestMaxIndex(p, i) ==
    /\ \A j \in 1..Len(p) : p[j] <= p[i]
    /\ \A j \in 1..(i - 1) : p[j] < p[i]

\* c is v rounded to 4 decimal places (a multiple of 10 units, halves going up)
IsRoundedTo4(c, v) == c % 10 = 0 /\ v - 5 < c /\ c <= v + 5

ClassIndex(name) == CHOOSE i \in 1..NumClasses : classes[i] = name

\* C1: once preprocessImage has returned its tensor, that tensor is disposed
\* by the time the request has its terminal response, on every exit path.
C1_TensorReleasedOnEveryExit ==
    (Done /\ PreprocessSucceeded) => "batchedTensor" \notin live

\* C2: a /classify request without a file gets 400, whatever the model's
\* state, and validateImage, preprocessImage and predict are never invoked.
C2_NoFileIs400 ==
    (req.route = "classify" /\ ~req.upload.hasField) =>
        /\ calls = {}
        /\ pc \in {"routed", "handler", "done"}
        /\ pc = "done" => res.status = 400

C2_Witness ==
    /\ Done
    /\ ~req.upload.hasField
    /\ ~isModelLoaded(model)
    /\ res.status = 400

\* C3: a /classify request with a file, handled while the model is not loaded,
\* gets 503 with none of validateImage, preprocessImage, predict invoked; and
\* GET /health answered in that model state reports modelLoaded: false.
C3_ModelUnreadyIs503 ==
    /\ (req.route = "classify" /\ file /\ observedModel = "null") =>
            /\ calls = {}
            /\ pc = "done"
            /\ res.status = 503
    /\ (req.route = "health" /\ pc = "done" /\ observedModel = "null") =>
            /\ "modelLoaded" \in res.keys
            /\ res.modelLoaded = FALSE

C3_Witness ==
    /\ Done
    /\ file
    /\ observedModel = "null"
    /\ res.status = 503

\* C4: the status of a failed request is decided by the stage that failed:
\* validateImage or preprocessImage failing gives 400 with predict never
\* invoked; predict failing gives 503 when the model is not loaded and 500
\* otherwise, never 400, whatever the text of the cause.
C4_StatusByFailedStage ==
    /\ (Done /\ failedStage \in {"validateImage", "preprocessImage"}) =>
            (res.status = 400 /\ "predict" \notin calls)
    /\ (Done /\ failedStage = "predict") =>
            res.status = (IF isModelLoaded(model) THEN 500 ELSE 503)

\* C5: every failure response (400, 503, 500; from the handler and from the
\* error middleware) carries error, message and timestamp.
C5_FailureBodyHasThreeFields ==
    (pc = "done" /\ res.status \in FailureStatuses) =>
        {"error", "message", "timestamp"} \subseteq res.keys

\* C6: an upload whose declared MIME type is not an image type is rejected
\* before the handler is reached, and the caller receives 400.
C6_NonImageUploadIs400 ==
    (Done /\ req.upload.hasField /\ req.upload.mimetype[1] # "image") =>
        /\ failedStage = "upload"
        /\ observedModel = "unread"
        /\ calls = {}
        /\ res.status = 400

\* C7: requests are handled only once loadModel has succeeded: a failed
\* loadModel at startup ends in exit without ever listening, a request is
\* handled only with the model loaded, and a loaded model stays loaded.
C7_ServesOnlyWhenLoaded ==
    /\ [](proc = "listening" => isModelLoaded(model))
    /\ [](pc # "idle" => (proc = "listening" /\ isModelLoaded(model)))
    /\ [](proc \in {"loadFailed", "exited"} => (~isModelLoaded(model) /\ pc = "idle"))
    /\ [][proc = "loadFailed" => proc' = "exited"]_vars
    /\ [][isModelLoaded(model) => isModelLoaded(model')]_vars

\* C7, for a ModelService driven directly: a loadModel that fails after one
\* that succeeded leaves the loaded model in place.
C7_LoadedStaysLoadedDirect ==
    [][isModelLoaded(model) => isModelLoaded(model')]_vars

C7_Witness ==
    /\ proc = "listening"
    /\ Done
    /\ res.status = 200

\* C8 (amended): whenever predict returns a result, predictedClass is the class
\* name at the lowest index at which the maximum occurs (so the lower index
\* wins a tie), and confidence is the value at that index rounded to 4
\* decimal places.
C8_LowestMaxIndexRounded ==
    (pc \in {"respond", "done"} /\ prediction # NoPrediction) =>
        \E i \in 1..NumClasses :
            /\ IsLowestMaxIndex(probabilities, i)
            /\ prediction.predictedClass = classes[i]
            /\ IsRoundedTo4(prediction.confidence, probabilities[i])

C8_Witness ==
    /\ Done
    /\ res.status = 200
    /\ \E i, j \in 1..NumClasses :
        /\ i < j
        /\ probabilities[i] = probabilities[j]
        /\ probabilities[i] > 0
        /\ IsLowestMaxIndex(probabilities, i)
        /\ res.result.predictedClass = classes[i]

\* C8 as stated: confidence is the value at that same index.
C8_AsStated ==
    (pc \in {"respond", "done"} /\ prediction # NoPrediction) =>
        \E i \in 1..NumClasses :
            /\ IsLowestMaxIndex(probabilities, i)
            /\ prediction.predictedClass = classes[i]
            /\ prediction.confidence = probabilities[i]

\* C9: allPredictions has exactly one entry per class (10), is ordered by
\* probability descending with equal probabilities kept in class order, and
\* the success response carries exactly its first 5 entries in that order.
C9_SortedStableTop5 ==
    (pc \in {"respond", "done"} /\ prediction # NoPrediction) =>
        LET all == prediction.allPredictions IN
        /\ Len(all) = NumClasses
        /\ \A c \in 1..NumClasses :
            \E k \in 1..Len(all) :
                /\ all[k].class = classes[c]
                /\ all[k].probability = probabilities[c]
                /\ \A l \in 1..Len(all) : all[l].class = classes[c] => l = k
        /\ \A k, l \in 1..Len(all) :
            k < l =>
                \/ all[k].probability > all[l].probability
                \/ /\ all[k].probability = all[l].probability
                   /\ ClassIndex(all[k].class) < ClassIndex(all[l].class)
        /\ (pc = "done") =>
            /\ res.status = 200
            /\ Len(res.result.allPredictions) = 5
            /\ \A k \in 1..5 : res.result.allPredictions[k] = all[k]

C9_Witness ==
    /\ Done
    /\ res.status = 200
    /\ \E i, j \in 1..NumClasses :
        /\ i < j
        /\ probabilities[i] = probabilities[j]
        /\ probabilities[i] > 0
        /\ res.result.allPredictions[1].class = classes[i]
        /\ res.result.allPredictions[2].class = classes[j]
    /\ res.result.allPredictions[3].probability = 0

\* C10: every intermediate tensor of preprocessImage is released before it
\* returns: on success only the returned tensor is live, on failure none.
C10_IntermediatesReleased ==
    /\ pc = "predict" => live = {"batchedTensor"}
    /\ (pc \in {"catch", "done"} /\ failedStage = "preprocessImage") => live = {}

====
